---- MODULE Spec2Model ----
\* githelper (src/src/lib.rs, src/src/error.rs): a facade over git2.
\* The model holds one repository path: its working tree, the git metadata
\* that git2 keeps under it (index, tree objects, commits, HEAD, the origin
\* remote) and, for the last public operation called, its arguments, the git2
\* calls it made and the value it returned.
EXTENDS Integers, Sequences, FiniteSets, TLC

\* ---------------------------------------------------------------- bounds
MaxCommits == 3
MaxPaths == 2

\* ---------------------------------------------------------------- universe
\* Entries of the working tree, relative to repo_path.
GitDir == ".git"
GitConfig == ".git/config"
GitHead == ".git/HEAD"
Hidden == {GitDir, GitConfig, GitHead}
WorkFiles == {"a.txt", "subdir/subfile"}
WorkDirs == {"subdir"}
\* The paths a caller passes to stage, and every entry the path can hold.
Paths == {GitDir, GitConfig} \cup WorkFiles \cup WorkDirs
Entries == Paths \cup {GitHead}
TopLevel == {GitDir, "a.txt", "subdir"}
Messages == {"add a"}

\* Error variants of error.rs, as the values the operations return.
GitErrors == {"RepositoryInit", "RepositoryOpen", "IndexOpen", "FileStatus",
              "IndexWrite", "RepositorySignature", "IndexWriteTree",
              "RepositoryFindTree", "RepositoryCommit", "RepositoryHead",
              "IndexAddPath", "StripRepositoryPrefix", "NoOriginConfigured",
              "RemoteConnect", "RemotePush"}
Results == {"Ok"} \cup GitErrors

\* Failures git2 can report to commit / stage / push_to_origin that do not
\* depend on the modelled state (I/O, missing user.name, network), named by
\* the call that fails. "RepositoryOpen" is Repository::open failing on a
\* repository that is there; "HeadRead" is head() or peel_to_commit() failing
\* on a HEAD that is born; "FindRemote" is find_remote failing on an origin
\* that is configured.
CommitFaults == {"none", "RepositoryOpen", "IndexOpen", "IndexWriteTree", "HeadRead",
                 "RepositoryFindTree", "RepositorySignature", "RepositoryCommit"}
AfterWriteTree == {"RepositoryFindTree", "RepositorySignature", "RepositoryCommit"}
StageFaults == {"none", "RepositoryOpen", "IndexOpen", "IndexWrite"}
PushFaults == {"none", "RepositoryOpen", "FindRemote", "RemoteConnect", "RemotePush"}
\* Repository::init can fail before it writes anything, after it has made
\* the metadata directory, after it has written the configuration, or, with
\* HEAD written and the repository complete, in the open that ends it.
InitFaults == {"none", "RepositoryInit", "AfterDirectories", "AfterConfig", "AfterHead"}

VARIABLES fs, index, odb, commits, head, origin, originMaster,
          lastOp, lastPaths, lastResult, fault, calls

vars == <<fs, index, odb, commits, head, origin, originMaster,
          lastOp, lastPaths, lastResult, fault, calls>>

repoVars == <<fs, index, odb, commits, head, origin, originMaster>>

\* ---------------------------------------------------------------- helpers
Range(s) == {s[i] : i \in 1..Len(s)}

\* The argument lists of stage: up to n paths, each named once. stage treats
\* every entry by itself and writes the index once at the end, so one order
\* per set of paths is drawn.
PathOrder == <<".git", ".git/config", "a.txt", "subdir", "subdir/subfile">>

PathLists(n) ==
    {SelectSeq(PathOrder, LAMBDA p : p \in S) :
        S \in {T \in SUBSET Paths : Cardinality(T) <= n}}

StageInputs == PathLists(MaxPaths)

Parent(p) == IF p \in {GitConfig, GitHead} THEN GitDir
             ELSE IF p = "subdir/subfile" THEN "subdir" ELSE ""

\* Repository::open(repo_path) succeeds iff the metadata directory is there
\* and holds HEAD, the last file init writes; what a failed init left behind
\* (the directory alone, or the directory and its configuration) is no
\* repository.
RepositoryOpen(f) == f[GitDir] = "dir" /\ f[GitHead] = "file"

\* stage, first filter: fullpath.exists() && fullpath.is_file()
IsRegularFile(f, p) == f[p] = "file"

\* stage, second filter: entry.as_ref() == PathBuf::from(".git")
IsGitEntry(p) == p = GitDir

\* The paths that reach index.add_path.
StageFilter(f, paths) ==
    LET keep(p) == IsRegularFile(f, p) /\ IsGitEntry(p)
    IN SelectSeq(paths, keep)

\* git2 Index::add_path: adds a regular file of the working tree; fails on a
\* missing path, a directory, and a path inside the metadata directory.
IndexAddPath(f, p) == f[p] = "file" /\ p \notin Hidden

\* What stage returns.
StageResult(f, paths, flt) ==
    IF ~RepositoryOpen(f) \/ flt = "RepositoryOpen" THEN "RepositoryOpen"
    ELSE IF flt = "IndexOpen" THEN "IndexOpen"
    ELSE IF \E p \in Range(StageFilter(f, paths)) : ~IndexAddPath(f, p)
         THEN "IndexAddPath"
    ELSE IF flt = "IndexWrite" THEN "IndexWrite"
    ELSE "Ok"

\* The index on disk after stage: written only by index.write().
StageIndex(f, idx, paths, flt) ==
    IF StageResult(f, paths, flt) = "Ok"
    THEN idx \cup Range(StageFilter(f, paths))
    ELSE idx

\* stage: the filter chain over `paths` is lazy and runs inside collect(),
\* after open and index have succeeded: a call that fails before that has
\* looked at none of the paths.
StageExamined(f, paths, flt) ==
    IF StageResult(f, paths, flt) \in {"RepositoryOpen", "IndexOpen"} THEN {}
    ELSE Range(paths)

StageCalls(f, paths, flt) ==
    LET r == StageResult(f, paths, flt)
    IN  IF r = "RepositoryOpen" THEN <<"open">>
        ELSE IF r = "IndexOpen" THEN <<"open", "index">>
        ELSE IF r = "IndexAddPath" THEN <<"open", "index", "add_path">>
        ELSE <<"open", "index">>
             \o [i \in 1..Len(StageFilter(f, paths)) |-> "add_path"]
             \o <<"write">>

\* WalkDir::new(repo_path): the root, then every entry beneath it, a
\* directory before its content; the order of siblings is the file system's,
\* at the top level and inside the metadata directory.
TopOrders == {s \in [1..Cardinality(TopLevel) -> TopLevel] :
                 \A i, j \in DOMAIN s : i # j => s[i] # s[j]}

GitOrders == {<<GitConfig, GitHead>>, <<GitHead, GitConfig>>}

WalkOrders == TopOrders \X GitOrders

Subtree(f, p, inGit) ==
    IF f[p] = "none" THEN <<>>
    ELSE <<p>> \o SelectSeq(inGit \o <<"subdir/subfile">>,
                            LAMBDA c : Parent(c) = p /\ f[c] # "none")

WalkDir(f, ord) ==
    <<"">> \o Subtree(f, ord[1][1], ord[2]) \o Subtree(f, ord[1][2], ord[2])
           \o Subtree(f, ord[1][3], ord[2])

\* stage_all: drop the root, strip the prefix (entries are already relative).
StageAllPaths(f, ord) == SelectSeq(WalkDir(f, ord), LAMBDA p : p # "")

\* commit: parent_commit holds the commit HEAD peels to; it stays empty when
\* head() or peel_to_commit() returns an error, whatever the reason.
ParentCommit(h, flt) == IF h = 0 \/ flt = "HeadRead" THEN <<>> ELSE <<h>>

\* repository.commit(Some("HEAD"), ..): git2 refuses to create the commit when
\* HEAD is born and its commit is not the first of the parents passed.
CommitRefused(h, parents) == h # 0 /\ parents # <<h>>

\* Variant of commit that creates the commit without updating a reference.
KeepRef(h, new) == h

\* repository.commit(Some("HEAD"), ...) moves HEAD to the new commit.
UpdateRef(h, new) == new

\* Variant of commit that empties the index right after write_tree, so that
\* a later failing step leaves it empty.
ClearedBeforeCommit(idx, result) == IF result \in AfterWriteTree THEN {} ELSE idx

\* Variant of commit that empties the index once the commit is created.
ClearedAfterCommit(idx, result) == IF result = "Ok" THEN {} ELSE idx

\* commit reads the index through write_tree and never writes it back.
IndexAfterCommit(idx, result) == idx

CommitResult(f, h, flt) ==
    IF ~RepositoryOpen(f) \/ flt = "RepositoryOpen" THEN "RepositoryOpen"
    ELSE IF flt \in {"IndexOpen", "IndexWriteTree", "RepositoryFindTree",
                     "RepositorySignature", "RepositoryCommit"} THEN flt
    ELSE IF CommitRefused(h, ParentCommit(h, flt)) THEN "RepositoryCommit"
    ELSE "Ok"

\* The git2 calls of commit, in the order of the code.
AllCommitCalls ==
    <<"open", "index", "write_tree", "head", "find_tree", "signature", "commit">>

CommitCalls(f, h, flt) ==
    LET r == CommitResult(f, h, flt)
        all == AllCommitCalls
        n == IF r = "RepositoryOpen" THEN 1
             ELSE IF r = "IndexOpen" THEN 2
             ELSE IF r = "IndexWriteTree" THEN 3
             ELSE IF r = "RepositoryFindTree" THEN 5
             ELSE IF r = "RepositorySignature" THEN 6
             ELSE 7
    IN SubSeq(all, 1, n)

\* init: Repository::init(&repo_path).map_err(Error::RepositoryInit)?
InitResult(flt) == IF flt = "none" THEN "Ok" ELSE "RepositoryInit"

\* Repository::init(&repo_path) is called with git2's default options. On a
\* path that holds no repository it makes the metadata directory, writes the
\* configuration, writes HEAD, and opens the repository it made; nothing is
\* rolled back when a step fails. On a path that holds a repository it
\* re-initialises: it makes and removes no entry, whether it succeeds or fails.
InitFs(f, flt) ==
    IF RepositoryOpen(f) THEN f
    ELSE IF flt \in {"none", "AfterHead"}
         THEN [f EXCEPT ![GitDir] = "dir", ![GitConfig] = "file", ![GitHead] = "file"]
    ELSE IF flt = "AfterConfig"
         THEN [f EXCEPT ![GitDir] = "dir", ![GitConfig] = "file"]
    ELSE IF flt = "AfterDirectories" THEN [f EXCEPT ![GitDir] = "dir"]
    ELSE f

\* Variant of init that writes a fresh HEAD whatever the path holds.
FreshHead(f, h) == 0

\* Repository::init writes HEAD (unborn) only on a path that holds no
\* repository; re-initialising keeps the HEAD that is there.
InitHead(f, h) == IF RepositoryOpen(f) THEN h ELSE 0

\* Variant of push_to_origin that goes on to connect when find_remote fails.
PushIgnoringMissingOrigin(f, o, h, flt) ==
    IF ~RepositoryOpen(f) \/ flt = "RepositoryOpen" THEN "RepositoryOpen"
    ELSE IF flt \in {"RemoteConnect", "FindRemote"} \/ ~o THEN "RemoteConnect"
    ELSE IF flt = "RemotePush" \/ h = 0 THEN "RemotePush"
    ELSE "Ok"

\* push_to_origin: open, find_remote("origin"), connect, push. Every error
\* of find_remote is mapped to NoOriginConfigured.
PushResult(f, o, h, flt) ==
    IF ~RepositoryOpen(f) \/ flt = "RepositoryOpen" THEN "RepositoryOpen"
    ELSE IF ~o \/ flt = "FindRemote" THEN "NoOriginConfigured"
    ELSE IF flt = "RemoteConnect" THEN "RemoteConnect"
    ELSE IF flt = "RemotePush" \/ h = 0 THEN "RemotePush"
    ELSE "Ok"

PushCalls(f, o, h, flt) ==
    LET r == PushResult(f, o, h, flt)
    IN  IF r = "RepositoryOpen" THEN <<"open">>
        ELSE IF r = "NoOriginConfigured" THEN <<"open", "find_remote">>
        ELSE IF r = "RemoteConnect" THEN <<"open", "find_remote", "connect">>
        ELSE <<"open", "find_remote", "connect", "push">>

\* remote.push updates refs/remotes/origin/master to the pushed commit.
TrackingRef(f, o, h, flt, old) == IF PushResult(f, o, h, flt) = "Ok" THEN h ELSE old

\* History reachable from a commit, newest first, following first parents.
RECURSIVE History(_, _)
History(h, fuel) ==
    IF h = 0 \/ fuel = 0 \/ h > Len(commits) THEN <<>>
    ELSE <<h>> \o History(IF commits[h].parents = <<>> THEN 0
                          ELSE commits[h].parents[1], fuel - 1)

\* ---------------------------------------------------------------- state
Init ==
    /\ fs = [p \in Entries |-> "none"]
    /\ index = {}
    /\ odb = {}
    /\ commits = <<>>
    /\ head = 0
    /\ origin = FALSE
    /\ originMaster = 0
    /\ lastOp = "none"
    /\ lastPaths = {}
    /\ lastResult = "Ok"
    /\ fault = "none"
    /\ calls = <<>>

\* ---------------------------------------------------------------- caller
\* fs::write(dir.join(file), ..) of a new file.
WriteFile(p) ==
    /\ p \in WorkFiles
    /\ fs[p] = "none"
    /\ IF Parent(p) = "" THEN TRUE ELSE fs[Parent(p)] = "dir"
    /\ fs' = [fs EXCEPT ![p] = "file"]
    /\ lastOp' = "write" /\ lastPaths' = {} /\ lastResult' = "Ok"
    /\ fault' = "none" /\ calls' = <<>>
    /\ UNCHANGED <<index, odb, commits, head, origin, originMaster>>

\* fs::create_dir_all(dir.join("subdir"))
MkDir(p) ==
    /\ p \in WorkDirs
    /\ fs[p] = "none"
    /\ fs' = [fs EXCEPT ![p] = "dir"]
    /\ lastOp' = "mkdir" /\ lastPaths' = {} /\ lastResult' = "Ok"
    /\ fault' = "none" /\ calls' = <<>>
    /\ UNCHANGED <<index, odb, commits, head, origin, originMaster>>

\* The index file that repository.index() opens is git's own: an entry
\* written there by another git client for a file of the working tree.
ExternalAdd(p) ==
    /\ RepositoryOpen(fs)
    /\ p \in WorkFiles /\ fs[p] = "file" /\ p \notin index
    /\ index' = index \cup {p}
    /\ lastOp' = "external_add" /\ lastPaths' = {} /\ lastResult' = "Ok"
    /\ fault' = "none" /\ calls' = <<>>
    /\ UNCHANGED <<fs, odb, commits, head, origin, originMaster>>

\* The remote "origin" that find_remote looks up is configured outside.
AddOrigin ==
    /\ RepositoryOpen(fs) /\ ~origin
    /\ origin' = TRUE
    /\ lastOp' = "add_origin" /\ lastPaths' = {} /\ lastResult' = "Ok"
    /\ fault' = "none" /\ calls' = <<>>
    /\ UNCHANGED <<fs, index, odb, commits, head, originMaster>>

\* ---------------------------------------------------------------- operations
InitRepo(flt) ==
    /\ fs' = InitFs(fs, flt)
    /\ head' = IF flt \in {"none", "AfterHead"} THEN InitHead(fs, head) ELSE head
    /\ lastOp' = "init" /\ lastPaths' = {} /\ lastResult' = InitResult(flt)
    /\ fault' = flt /\ calls' = <<"init">>
    /\ UNCHANGED <<index, odb, commits, origin, originMaster>>

Stage(paths, flt) ==
    /\ RepositoryOpen(fs) \/ flt = "none"
    /\ index' = StageIndex(fs, index, paths, flt)
    /\ lastOp' = "stage" /\ lastPaths' = StageExamined(fs, paths, flt)
    /\ lastResult' = StageResult(fs, paths, flt)
    /\ fault' = flt /\ calls' = StageCalls(fs, paths, flt)
    /\ UNCHANGED <<fs, odb, commits, head, origin, originMaster>>

StageAll(ord, flt) ==
    /\ RepositoryOpen(fs) \/ flt = "none"
    /\ LET paths == StageAllPaths(fs, ord)
       IN /\ index' = StageIndex(fs, index, paths, flt)
          /\ lastPaths' = StageExamined(fs, paths, flt)
          /\ lastResult' = StageResult(fs, paths, flt)
          /\ calls' = <<"walk">> \o StageCalls(fs, paths, flt)
    /\ lastOp' = "stage_all" /\ fault' = flt
    /\ UNCHANGED <<fs, odb, commits, head, origin, originMaster>>

Commit(message, flt) ==
    /\ Len(commits) < MaxCommits
    /\ RepositoryOpen(fs) \/ flt = "none"
    /\ flt = "HeadRead" => head # 0
    /\ LET r == CommitResult(fs, head, flt)
           new == Len(commits) + 1
       IN /\ odb' = IF r \in {"Ok"} \cup AfterWriteTree THEN odb \cup {index} ELSE odb
          /\ commits' = IF r = "Ok"
                        THEN Append(commits, [tree |-> index,
                                              parents |-> ParentCommit(head, flt),
                                              message |-> message])
                        ELSE commits
          /\ head' = IF r = "Ok" THEN UpdateRef(head, new) ELSE head
          /\ index' = IndexAfterCommit(index, r)
          /\ lastResult' = r
    /\ lastOp' = "commit" /\ lastPaths' = {}
    /\ fault' = flt /\ calls' = CommitCalls(fs, head, flt)
    /\ UNCHANGED <<fs, origin, originMaster>>

PushToOrigin(flt) ==
    /\ \/ flt = "none"
       \/ RepositoryOpen(fs) /\ flt = "RepositoryOpen"
       \/ RepositoryOpen(fs) /\ origin
    /\ originMaster' = TrackingRef(fs, origin, head, flt, originMaster)
    /\ lastOp' = "push_to_origin" /\ lastPaths' = {}
    /\ lastResult' = PushResult(fs, origin, head, flt)
    /\ fault' = flt /\ calls' = PushCalls(fs, origin, head, flt)
    /\ UNCHANGED <<fs, index, odb, commits, head, origin>>

\* status: unimplemented!()
Status ==
    /\ lastOp' = "status" /\ lastPaths' = {} /\ lastResult' = "Panic"
    /\ fault' = "none" /\ calls' = <<>>
    /\ UNCHANGED repoVars

Next ==
    \/ \E p \in WorkFiles : WriteFile(p)
    \/ \E p \in WorkDirs : MkDir(p)
    \/ \E p \in WorkFiles : ExternalAdd(p)
    \/ AddOrigin
    \/ \E flt \in InitFaults : InitRepo(flt)
    \/ \E paths \in StageInputs, flt \in StageFaults : Stage(paths, flt)
    \/ \E ord \in WalkOrders, flt \in StageFaults : StageAll(ord, flt)
    \/ \E m \in Messages, flt \in CommitFaults : Commit(m, flt)
    \/ \E flt \in PushFaults : PushToOrigin(flt)
    \/ Status

Spec == Init /\ [][Next]_vars

\* ---------------------------------------------------------------- claims
\* C1: after stage returns Ok on an initialized repository, the index holds an
\* entry for every path of `paths` that is a regular file of the working
\* tree (init; write a.txt; stage(["a.txt"]) leaves a.txt staged).
C1_StagedFilesInIndex ==
    (lastOp = "stage" /\ lastResult = "Ok")
        => \A p \in lastPaths \cap WorkFiles : fs[p] = "file" => p \in index

\* C2: stage on an initialized repository never fails because of a bad entry:
\* it returns Ok (unless git2 reports an I/O failure of the index itself), a
\* path that is missing or a directory has no index entry, and the remaining
\* paths of a list that holds a bad entry are still processed: those that are
\* regular files of the working tree are staged.
C2_StageSkipsBadEntries ==
    (lastOp = "stage" /\ RepositoryOpen(fs))
        => /\ lastResult # "IndexAddPath"
           /\ fault = "none" => lastResult = "Ok"
           /\ \A p \in lastPaths : fs[p] # "file" => p \notin index
           /\ (lastResult = "Ok" /\ \E b \in lastPaths \ Hidden : fs[b] # "file")
                 => \A p \in lastPaths \cap WorkFiles : fs[p] = "file" => p \in index

\* C3: after n successful commits on a fresh repository the history reachable
\* from HEAD is the chain of the n commits, newest first; the first commit has
\* no parent and every later one has exactly one, the commit HEAD resolved to
\* before the call.
C3_LinearHistory ==
    /\ [](LET n == Len(commits)
          IN /\ History(head, n + 1) = [i \in 1..n |-> n + 1 - i]
             /\ \A i \in 1..n :
                   commits[i].parents = IF i = 1 THEN <<>> ELSE <<i - 1>>)
    /\ [][(lastOp' = "commit" /\ lastResult' = "Ok")
             => /\ Len(commits') = Len(commits) + 1
                /\ commits'[Len(commits')].parents
                      = IF head = 0 THEN <<>> ELSE <<head>>]_vars

C3_Witness ==
    lastOp = "commit" /\ lastResult = "Ok" /\ Len(commits) = 3 /\ head = 3

\* C4: HEAD is unborn as long as the repository has no commit, and after
\* every successful commit it resolves to the commit that call created.
C4_HeadTracksNewestCommit ==
    /\ (commits = <<>> => head = 0)
    /\ (commits # <<>> => head = Len(commits))
    /\ (lastOp = "commit" /\ lastResult = "Ok") => (head > 0 /\ head = Len(commits))

C4_Witness ==
    lastOp = "commit" /\ lastResult = "Ok" /\ head = 2 /\ Len(commits) = 2

\* C5: a commit call that fails after write_tree (find_tree, signature or
\* commit) returns an error and leaves the index entries, HEAD and the commits
\* as they were; the next commit call, made without a fault, succeeds and
\* adds exactly one commit, to which HEAD then resolves.
C5_CommitAtomic ==
    [][/\ (lastOp' = "commit" /\ fault' \in AfterWriteTree /\ RepositoryOpen(fs))
            => lastResult' = fault'
       /\ (lastOp' = "commit" /\ lastResult' \in AfterWriteTree)
            => (index' = index /\ head' = head /\ commits' = commits)
       /\ (lastOp = "commit" /\ lastResult \in AfterWriteTree
             /\ lastOp' = "commit" /\ fault' = "none")
            => /\ lastResult' = "Ok"
               /\ index' = index
               /\ Len(commits') = Len(commits) + 1
               /\ SubSeq(commits', 1, Len(commits)) = commits
               /\ head' = Len(commits')]_vars

C5_Witness ==
    /\ lastOp = "commit" /\ lastResult \in AfterWriteTree
    /\ index # {} /\ head > 0

\* C6 (as stated): init on a path that already holds a repository fails.
C6_InitAlreadyExists ==
    (lastOp = "init" /\ (commits # <<>> \/ index # {} \/ origin))
        => lastResult \in GitErrors

\* C6 (amended): init on a path that already holds a repository returns Ok
\* (it re-initialises), or RepositoryInit when git2 itself fails; in both
\* cases the working tree, the objects, the index and the references (HEAD,
\* the origin remote and its tracking reference) are as they were.
C6_ReinitKeepsRepository ==
    [][(lastOp' = "init" /\ RepositoryOpen(fs))
          => /\ lastResult' \in {"Ok", "RepositoryInit"}
             /\ fault' = "none" => lastResult' = "Ok"
             /\ UNCHANGED repoVars]_vars

C6_Witness ==
    lastOp = "init" /\ lastResult = "Ok" /\ head > 0 /\ index # {}

\* C7: push_to_origin returns RepositoryOpen, having made no other call, when
\* the repository cannot be opened (none is there, or git2 fails to open
\* it); when it opens and has no remote named origin it returns
\* NoOriginConfigured, makes no connect or push call and changes nothing.
C7_PushWithoutOrigin ==
    [][lastOp' = "push_to_origin"
          => /\ (~RepositoryOpen(fs) \/ fault' = "RepositoryOpen")
                  => /\ lastResult' = "RepositoryOpen"
                     /\ calls' = <<"open">>
                     /\ UNCHANGED repoVars
             /\ (RepositoryOpen(fs) /\ fault' # "RepositoryOpen" /\ ~origin)
                  => /\ lastResult' = "NoOriginConfigured"
                     /\ Range(calls') \cap {"connect", "push"} = {}
                     /\ UNCHANGED repoVars]_vars

C7_Witness ==
    lastOp = "push_to_origin" /\ lastResult = "NoOriginConfigured" /\ head > 0

\* C8: every public operation returns Ok or one Error variant; none panics.
C8_EveryOperationReturns == lastResult \in Results

\* C9: after stage_all returns Ok, no hidden entry (.git or anything beneath
\* it) was passed to stage, and the index holds an entry for every regular
\* file of the working tree and none for a file under .git.
C9_StageAllStagesWorkingTree ==
    (lastOp = "stage_all" /\ lastResult = "Ok")
        => /\ lastPaths \cap Hidden = {}
           /\ \A p \in WorkFiles : fs[p] = "file" => p \in index
           /\ index \cap Hidden = {}

\* C10 (as stated): after every successful commit the index has no entries.
C10_CommitClearsIndex ==
    (lastOp = "commit" /\ lastResult = "Ok") => index = {}

\* C10 (amended): a successful commit calls write_tree, resolves HEAD (no
\* parent when unborn), finds the tree, takes the signature and creates the
\* commit, in that order, and never clears the index: the index holds the
\* same entries after the call as before, the entries of the new commit's tree.
C10_CommitKeepsIndex ==
    [][(lastOp' = "commit" /\ lastResult' = "Ok")
          => /\ calls' = AllCommitCalls
             /\ index' = index
             /\ commits'[Len(commits')].tree = index'
             /\ commits'[Len(commits')].parents
                   = IF head = 0 THEN <<>> ELSE <<head>>]_vars

C10_Witness ==
    lastOp = "commit" /\ lastResult = "Ok" /\ index = {"a.txt"} /\ head = 1

====
